---- MODULE Spec2Model ----
(***************************************************************************)
(* A model of the service-manager IoC container: ServiceManager            *)
(* (loadService / loadServices and the instance builder) together with     *)
(* its DependencyResolver (module loading, memoised per instance name).    *)
(*                                                                         *)
(* JavaScript runs every async function synchronously up to its next       *)
(* await.  Each action below is one such synchronous run: a call of        *)
(* loadService up to its first await, or the continuation of a suspended   *)
(* call after the promise it awaits has settled.  Continuations that are   *)
(* ready at the same time may run in any order.                            *)
(***************************************************************************)
EXTENDS Integers, Sequences, FiniteSets, TLC

VARIABLES
    serviceDefinitions,     \* DependencyResolver.serviceDefinitions
    SERVICES,               \* ServiceManager.SERVICES (key -> value)
    loadedServiceModules,   \* DependencyResolver.loadedServiceModules
    serviceModulePromises,  \* DependencyResolver.serviceModulePromises (name -> promise id)
    loadedServices,         \* ServiceManager.loadedServices (name -> instance id)
    promises,               \* the promise objects returned by loadDependency
    accessorCalls,          \* how often each name's pathToService was invoked
    tasks,                  \* every loadService invocation, finished or not
    batches                 \* every loadServices invocation

vars == <<serviceDefinitions, SERVICES, loadedServiceModules, serviceModulePromises,
          loadedServices, promises, accessorCalls, tasks, batches>>

-----------------------------------------------------------------------------
(* Bounds of the model. *)

MaxCalls == 2

MaxCallsLater == 3

-----------------------------------------------------------------------------
(* Values. *)

Absent == "-"               \* a key the object does not carry
Undefined == "undefined"

SeqToSet(q) == {q[i] : i \in 1..Len(q)}

ServiceInstanceInjection(name) == [kind |-> "serviceInstanceName", name |-> name, value |-> Absent]
CustomInjection(value) == [kind |-> "customInjection", name |-> Absent, value |-> value]
InvalidInjection == [kind |-> "invalid", name |-> Absent, value |-> Absent]

\* JSON.stringify of an injection object, as the Invalid Injection message
\* carries it: a text that differs for different objects.
JSONStringify(injection) == ToString(injection)

ServiceDefinition(cls, inst, inj, pba, path) ==
    [serviceClassName |-> cls, serviceInstanceName |-> inst, serviceInjections |-> inj,
     postBuildAsyncActions |-> pba, pathToService |-> path]

\* The values a customInjection can carry that JavaScript treats as false.
Falsy == {"false", "0", "", "null", Undefined}

Truthy(v) == v \notin Falsy

NoError == [kind |-> "", name |-> "", cls |-> ""]
Error(kind, name, cls) == [kind |-> kind, name |-> name, cls |-> cls]

\* A constructor argument: an instance (named by the invocation that built
\* it) or a literal.
InstanceValue(i) == [inst |-> i, value |-> Absent]
LiteralValue(v) == [inst |-> 0, value |-> v]

-----------------------------------------------------------------------------
(* The descriptor tables the container is constructed with, and the        *)
(* classes their modules export.                                           *)

\* X and Y share the dependency D; D and Y run post-build actions.
SharedTable ==
    << ServiceDefinition("X", Absent,
            <<ServiceInstanceInjection("D"), CustomInjection("alpha")>>, <<>>, "module"),
       ServiceDefinition("Y", Absent,
            <<CustomInjection("beta"), ServiceInstanceInjection("D")>>,
            <<"postBuildMethod", "warmUp">>, "module"),
       ServiceDefinition("D", Absent, <<>>, <<"postBuildMethod">>, "module") >>

\* P depends on Q, whose accessor rejects; R names a method its class lacks.
FailingTable ==
    << ServiceDefinition("P", Absent, <<ServiceInstanceInjection("Q")>>, <<>>, "module"),
       ServiceDefinition("Q", Absent, <<>>, <<>>, "rejects"),
       ServiceDefinition("R", Absent, <<>>, <<"nonExistentMethod">>, "module") >>

Tables == {SharedTable, FailingTable}

\* X and its dependency D alone.
DependencyTable ==
    << ServiceDefinition("X", Absent,
            <<ServiceInstanceInjection("D"), CustomInjection("alpha")>>, <<>>, "module"),
       ServiceDefinition("D", Absent, <<>>, <<"postBuildMethod">>, "module") >>

LaterTables == {DependencyTable, FailingTable}

\* Two descriptors of the class S under the instance names myService and
\* myOtherService, with different injections; a later descriptor repeats the
\* name myService.
NamingTable ==
    << ServiceDefinition("S", "myService",
            <<ServiceInstanceInjection("A"), CustomInjection("alpha")>>,
            <<"postBuildMethod">>, "module"),
       ServiceDefinition("S", "myOtherService",
            <<ServiceInstanceInjection("B"), CustomInjection("beta")>>, <<>>, "module"),
       ServiceDefinition("A", Absent, <<>>, <<>>, "module"),
       ServiceDefinition("B", Absent, <<>>, <<>>, "module"),
       ServiceDefinition("S", "myService", <<CustomInjection("shadowed")>>, <<>>, "module") >>

\* F is given falsy custom injections around a service reference; I carries
\* an injection object with neither key, after a valid one.
InjectionTable ==
    << ServiceDefinition("F", Absent,
            <<CustomInjection("0"), ServiceInstanceInjection("G"), CustomInjection(""),
              CustomInjection("gamma")>>, <<>>, "module"),
       ServiceDefinition("G", Absent, <<>>, <<>>, "module"),
       ServiceDefinition("I", Absent,
            <<ServiceInstanceInjection("G"), InvalidInjection, CustomInjection("delta")>>,
            <<>>, "module") >>

\* The ways the module of a service can fail to load.
PathTable ==
    << ServiceDefinition("Throws", Absent, <<>>, <<>>, "throws"),
       ServiceDefinition("NoPath", Absent, <<>>, <<>>, Absent),
       ServiceDefinition("NullModule", Absent, <<>>, <<>>, "resolves-null"),
       ServiceDefinition("NoDefault", Absent, <<>>, <<>>, "no-default") >>

\* W references M, which has no descriptor; the instance e1 of class E names
\* a missing method between two methods E has.
BrokenTable ==
    << ServiceDefinition("W", Absent, <<ServiceInstanceInjection("M")>>, <<>>, "module"),
       ServiceDefinition("E", "e1", <<>>,
            <<"postBuildMethod", "nonExistentMethod", "warmUp">>, "module") >>

\* Top reaches Bot along two paths, through L and through Rr.
DiamondTable ==
    << ServiceDefinition("Top", Absent,
            <<ServiceInstanceInjection("L"), CustomInjection("kappa"),
              ServiceInstanceInjection("Rr")>>, <<>>, "module"),
       ServiceDefinition("L", Absent, <<ServiceInstanceInjection("Bot")>>, <<>>, "module"),
       ServiceDefinition("Rr", Absent, <<ServiceInstanceInjection("Bot")>>, <<>>, "module"),
       ServiceDefinition("Bot", Absent, <<>>, <<>>, "module") >>

\* V references U; the accessor of each rejects.
FaultTable ==
    << ServiceDefinition("V", Absent, <<ServiceInstanceInjection("U")>>, <<>>, "rejects"),
       ServiceDefinition("U", Absent, <<>>, <<>>, "rejects") >>

\* Z references Ca, Ca and Cb reference each other, Self references itself;
\* Free references nothing.
CycleTable ==
    << ServiceDefinition("Z", Absent, <<ServiceInstanceInjection("Ca")>>, <<>>, "module"),
       ServiceDefinition("Ca", Absent,
            <<CustomInjection("lambda"), ServiceInstanceInjection("Cb")>>, <<>>, "module"),
       ServiceDefinition("Cb", Absent, <<ServiceInstanceInjection("Ca")>>, <<>>, "module"),
       ServiceDefinition("Self", Absent, <<ServiceInstanceInjection("Self")>>, <<>>, "module"),
       ServiceDefinition("Free", Absent, <<>>, <<>>, "module") >>

CycleTables == Tables \cup {CycleTable}

CaseTables == Tables \cup {NamingTable, InjectionTable, PathTable, BrokenTable, FaultTable}

DiamondTables == Tables \cup {DiamondTable, BrokenTable}

Names == {"X", "Y", "D", "P", "Q", "R", "Unknown",
          "S", "myService", "myOtherService", "A", "B",
          "F", "G", "I",
          "Throws", "NoPath", "NullModule", "NoDefault",
          "W", "M", "E", "e1",
          "Top", "L", "Rr", "Bot",
          "U", "V",
          "Z", "Ca", "Cb", "Self", "Free"}

Methods(cls) ==
    CASE cls = "Y" -> {"postBuildMethod", "warmUp"}
      [] cls = "D" -> {"postBuildMethod"}
      [] cls = "S" -> {"postBuildMethod"}
      [] cls = "E" -> {"postBuildMethod", "warmUp"}
      [] OTHER -> {}

EffectiveName(def) ==
    IF def.serviceInstanceName # Absent THEN def.serviceInstanceName
    ELSE def.serviceClassName

\* The names a caller may request from a container built with `table`.
RequestNames(table) ==
    {EffectiveName(table[i]) : i \in 1..Len(table)}
    \cup {table[i].serviceClassName : i \in 1..Len(table)}
    \cup {"Unknown"}

-----------------------------------------------------------------------------
(* The container's state as one record, so that the synchronous part of a  *)
(* call can be written as a function from state to state.                  *)

State ==
    [serviceDefinitions |-> serviceDefinitions, SERVICES |-> SERVICES,
     loadedServiceModules |-> loadedServiceModules,
     serviceModulePromises |-> serviceModulePromises,
     loadedServices |-> loadedServices, promises |-> promises,
     accessorCalls |-> accessorCalls, tasks |-> tasks, batches |-> batches]

Commit(s) ==
    \E next \in {s} :
        /\ serviceDefinitions' = next.serviceDefinitions
        /\ SERVICES' = next.SERVICES
        /\ loadedServiceModules' = next.loadedServiceModules
        /\ serviceModulePromises' = next.serviceModulePromises
        /\ loadedServices' = next.loadedServices
        /\ promises' = next.promises
        /\ accessorCalls' = next.accessorCalls
        /\ tasks' = next.tasks
        /\ batches' = next.batches

-----------------------------------------------------------------------------
(* DependencyResolver *)

\* Mutant: the element at the index found, read with at(): -1 is the last one.
GetServiceDefinitionAtFoundIndex(defs, serviceInstanceName) ==
    LET matches == {i \in 1..Len(defs) :
                      IF defs[i].serviceInstanceName # Absent
                      THEN defs[i].serviceInstanceName = serviceInstanceName
                      ELSE defs[i].serviceClassName = serviceInstanceName}
    IN IF matches = {} THEN Len(defs) ELSE CHOOSE i \in matches : \A j \in matches : i <= j

\* Mutant: a descriptor also answers to its class name when it has an
\* instance name.
GetServiceDefinitionByEitherName(defs, serviceInstanceName) ==
    LET matches == {i \in 1..Len(defs) :
                      \/ defs[i].serviceInstanceName = serviceInstanceName
                      \/ defs[i].serviceClassName = serviceInstanceName}
    IN IF matches = {} THEN 0 ELSE CHOOSE i \in matches : \A j \in matches : i <= j

\* The index of the first matching descriptor, 0 for null.
GetServiceDefinition(defs, serviceInstanceName) ==
    LET matches == {i \in 1..Len(defs) :
                      IF defs[i].serviceInstanceName # Absent
                      THEN defs[i].serviceInstanceName = serviceInstanceName
                      ELSE defs[i].serviceClassName = serviceInstanceName}
    IN IF matches = {} THEN 0 ELSE CHOOSE i \in matches : \A j \in matches : i <= j

GetLoadedModule(s, serviceInstanceName) == s.loadedServiceModules[serviceInstanceName]

IsModuleLoaded(s, serviceInstanceName) == GetLoadedModule(s, serviceInstanceName) # Undefined

\* Mutant: the entry of the load table is left in place.
DeleteModulePromiseNot(s, serviceInstanceName) == s

\* Mutant: the loaded module is deleted together with the entry of the load table.
DeleteModulePromiseAndModule(s, serviceInstanceName) ==
    [s EXCEPT !.serviceModulePromises[serviceInstanceName] = 0,
              !.loadedServiceModules[serviceInstanceName] = Undefined]

DeleteModulePromise(s, serviceInstanceName) ==
    [s EXCEPT !.serviceModulePromises[serviceInstanceName] = 0]

\* Depth-first, pre-order, without de-duplication.  `d` is a descriptor index
\* or 0; `from` is the position of the injection the loop has reached.
\* The names the descriptor of `name` references by service injection whose
\* module is not loaded: the names the walk recurses into from `name`.
UnloadedReferences(s, name) ==
    LET d == GetServiceDefinition(s.serviceDefinitions, name)
        inj == IF d = 0 THEN <<>> ELSE s.serviceDefinitions[d].serviceInjections
    IN {inj[k].name : k \in {j \in 1..Len(inj) :
            inj[j].kind = "serviceInstanceName" /\ ~IsModuleLoaded(s, inj[j].name)}}

\* The names the walk visits from the names of S.
RECURSIVE Visited(_, _)
Visited(s, S) ==
    LET next == S \cup UNION {UnloadedReferences(s, n) : n \in S}
    IN IF next = S THEN S ELSE Visited(s, next)

\* getUnloadedInjectionNames has no cycle guard: when the walk from the
\* descriptor d comes back to a name it is already inside, the recursion
\* never returns and the engine ends it with a RangeError (call stack
\* exceeded).
WalkOverflows(s, d) ==
    LET name == EffectiveName(s.serviceDefinitions[d])
    IN \E m \in Visited(s, UnloadedReferences(s, name)) :
          m \in Visited(s, UnloadedReferences(s, m))

RECURSIVE UnloadedFrom(_, _, _)
UnloadedFrom(s, d, from) ==
    IF d = 0 THEN <<>>
    ELSE LET inj == s.serviceDefinitions[d].serviceInjections IN
         IF from > Len(inj) THEN <<>>
         ELSE LET rest == UnloadedFrom(s, d, from + 1) IN
              IF inj[from].kind # "serviceInstanceName" THEN rest
              ELSE IF IsModuleLoaded(s, inj[from].name) THEN rest
              ELSE <<inj[from].name>>
                   \o UnloadedFrom(s, GetServiceDefinition(s.serviceDefinitions, inj[from].name), 1)
                   \o rest

\* Mutant: every descriptor of the table whose module is not loaded.
GetUnloadedInjectionNamesOfTable(s, d) ==
    LET unloaded == {i \in 1..Len(s.serviceDefinitions) :
                        /\ i # d
                        /\ ~IsModuleLoaded(s, EffectiveName(s.serviceDefinitions[i]))}
        RECURSIVE NamesFrom(_)
        NamesFrom(i) ==
            IF i > Len(s.serviceDefinitions) THEN <<>>
            ELSE (IF i \in unloaded THEN <<EffectiveName(s.serviceDefinitions[i])>> ELSE <<>>)
                 \o NamesFrom(i + 1)
    IN NamesFrom(1)

\* Mutant: the walk lists the unloaded injections of the descriptor only.
GetUnloadedInjectionNamesShallow(s, d) ==
    LET inj == s.serviceDefinitions[d].serviceInjections
        RECURSIVE Own(_)
        Own(k) == IF k > Len(inj) THEN <<>>
                  ELSE (IF /\ inj[k].kind = "serviceInstanceName"
                           /\ ~IsModuleLoaded(s, inj[k].name)
                        THEN <<inj[k].name>> ELSE <<>>) \o Own(k + 1)
    IN Own(1)

\* Mutant: a name reached along two paths is listed once.
GetUnloadedInjectionNamesDeduplicated(s, d) ==
    LET all == UnloadedFrom(s, d, 1)
        first == {k \in 1..Len(all) : \A j \in 1..(k - 1) : all[j] # all[k]}
        RECURSIVE Keep(_)
        Keep(k) == IF k > Len(all) THEN <<>>
                   ELSE (IF k \in first THEN <<all[k]>> ELSE <<>>) \o Keep(k + 1)
    IN Keep(1)

\* Mutant: the injections are not looked at.
GetUnloadedInjectionNamesNone(s, d) == <<>>

GetUnloadedInjectionNames(s, d) == UnloadedFrom(s, d, 1)

\* importServiceFromPath returns null without calling anything when there is
\* no descriptor or no accessor; otherwise it calls the accessor.
AccessorIsCalled(s, dependencyName) ==
    LET d == GetServiceDefinition(s.serviceDefinitions, dependencyName) IN
    d # 0 /\ s.serviceDefinitions[d].pathToService # Absent

\* The synchronous part of loadDependency: up to the await of the import.  An
\* accessor that throws is caught at once, so its promise is born rejected.
LoadDependency(s, dependencyName) ==
    LET d == GetServiceDefinition(s.serviceDefinitions, dependencyName)
        called == AccessorIsCalled(s, dependencyName)
        thrown == called /\ s.serviceDefinitions[d].pathToService = "throws"
    IN [s EXCEPT
          !.promises = Append(@, [name |-> dependencyName,
                                  state |-> IF thrown THEN "InvalidPathError" ELSE "pending"]),
          !.accessorCalls[dependencyName] = IF called THEN @ + 1 ELSE @,
          !.serviceModulePromises[dependencyName] = Len(s.promises) + 1]

\* Mutant: loadDependencies starts a load whether or not one is recorded.
HasNoModulePromiseUnchecked(s, dependencyName) == TRUE

\* Whether loadDependencies has to start a load for the name.
HasNoModulePromise(s, dependencyName) == s.serviceModulePromises[dependencyName] = 0

\* The loop of loadDependencies: start a load for every name that has no
\* entry in serviceModulePromises.
RECURSIVE LoadDependencies(_, _)
LoadDependencies(s, dependencyNames) ==
    IF dependencyNames = <<>> THEN s
    ELSE LET name == Head(dependencyNames)
             s1 == IF HasNoModulePromise(s, name) THEN LoadDependency(s, name) ELSE s
         IN LoadDependencies(s1, Tail(dependencyNames))

\* What the import of `name` yields once it settles.
ImportOutcome(s, name) ==
    LET d == GetServiceDefinition(s.serviceDefinitions, name) IN
    IF ~AccessorIsCalled(s, name) THEN "null"
    ELSE s.serviceDefinitions[d].pathToService

\* The class the module of `name` exports by default.
DefaultExport(s, name) ==
    s.serviceDefinitions[GetServiceDefinition(s.serviceDefinitions, name)].serviceClassName

Rejected(promise) == promise.state \notin {"pending", "resolved"}

\* Mutant: a rejection cancels the pending loads awaited together with it.
RejectModulePromiseCancelling(s, p, kind) ==
    LET awaiting == {t \in 1..Len(s.tasks) :
                        /\ s.tasks[t].pc = "awaitModules"
                        /\ \E k \in 1..Len(s.tasks[t].waits) : s.tasks[t].waits[k] = p}
        siblings == {q \in 1..Len(s.promises) :
                        /\ s.promises[q].state = "pending" /\ q # p
                        /\ \E t \in awaiting : \E k \in 1..Len(s.tasks[t].waits) :
                              s.tasks[t].waits[k] = q}
    IN [s EXCEPT
          !.promises = [q \in 1..Len(s.promises) |->
                          IF q = p THEN [s.promises[q] EXCEPT !.state = kind]
                          ELSE IF q \in siblings
                          THEN [s.promises[q] EXCEPT !.state = "cancelled"]
                          ELSE s.promises[q]],
          !.tasks = [t \in 1..Len(s.tasks) |->
                       IF t \in awaiting /\ s.tasks[t].rejection = NoError
                       THEN [s.tasks[t] EXCEPT !.rejection = Error(kind, s.promises[p].name, "")]
                       ELSE s.tasks[t]]]

\* Mutant: only the first invocation that awaits the load takes its rejection.
RejectModulePromiseToFirstOnly(s, p, kind) ==
    LET awaiting == {t \in 1..Len(s.tasks) :
                        /\ s.tasks[t].pc = "awaitModules"
                        /\ s.tasks[t].rejection = NoError
                        /\ \E k \in 1..Len(s.tasks[t].waits) : s.tasks[t].waits[k] = p}
    IN [s EXCEPT
          !.promises[p].state = kind,
          !.tasks = [t \in 1..Len(s.tasks) |->
                       IF t \in awaiting /\ \A u \in awaiting : t <= u
                       THEN [s.tasks[t] EXCEPT !.rejection = Error(kind, s.promises[p].name, "")]
                       ELSE s.tasks[t]]]

\* Mutant: a rejected load is dropped from the load table.
RejectModulePromiseForgotten(s, p, kind) ==
    [s EXCEPT
       !.promises[p].state = kind,
       !.serviceModulePromises[s.promises[p].name] = 0,
       !.tasks = [t \in 1..Len(s.tasks) |->
                    IF /\ s.tasks[t].pc = "awaitModules"
                       /\ s.tasks[t].rejection = NoError
                       /\ \E k \in 1..Len(s.tasks[t].waits) : s.tasks[t].waits[k] = p
                    THEN [s.tasks[t] EXCEPT !.rejection = Error(kind, s.promises[p].name, "")]
                    ELSE s.tasks[t]]]

\* Promise p is rejected: the Promise.all of every invocation that awaits it
\* and has seen no rejection yet rejects with its error.
RejectModulePromise(s, p, kind) ==
    [s EXCEPT
       !.promises[p].state = kind,
       !.tasks = [t \in 1..Len(s.tasks) |->
                    IF /\ s.tasks[t].pc = "awaitModules"
                       /\ s.tasks[t].rejection = NoError
                       /\ \E k \in 1..Len(s.tasks[t].waits) : s.tasks[t].waits[k] = p
                    THEN [s.tasks[t] EXCEPT !.rejection = Error(kind, s.promises[p].name, "")]
                    ELSE s.tasks[t]]]

\* Mutant: the entry of the load table is deleted when the module is loaded.
SettleDependencyClearingEntry(s, p) ==
    LET name == s.promises[p].name
        outcome == ImportOutcome(s, name)
    IN CASE outcome = "rejects" -> RejectModulePromise(s, p, "InvalidPathError")
         [] outcome \in {"null", "resolves-null", "resolves-undefined"} ->
              RejectModulePromise(s, p, "PathNotFoundError")
         [] outcome = "no-default" ->
              [s EXCEPT !.promises[p].state = "resolved",
                        !.loadedServiceModules[name] = Undefined]
         [] OTHER ->
              [s EXCEPT !.promises[p].state = "resolved",
                        !.loadedServiceModules[name] = DefaultExport(s, name),
                        !.serviceModulePromises[name] = 0]

\* Mutant: the rejection of the import is not caught.
SettleDependencyUncaught(s, p) ==
    LET name == s.promises[p].name
        outcome == ImportOutcome(s, name)
    IN CASE outcome = "rejects" -> RejectModulePromise(s, p, "error")
         [] outcome \in {"null", "resolves-null", "resolves-undefined"} ->
              RejectModulePromise(s, p, "PathNotFoundError")
         [] outcome = "no-default" ->
              [s EXCEPT !.promises[p].state = "resolved",
                        !.loadedServiceModules[name] = Undefined]
         [] OTHER ->
              [s EXCEPT !.promises[p].state = "resolved",
                        !.loadedServiceModules[name] = DefaultExport(s, name)]

\* The continuation of loadDependency after the import has settled.
SettleDependency(s, p) ==
    LET name == s.promises[p].name
        outcome == ImportOutcome(s, name)
    IN CASE outcome = "rejects" -> RejectModulePromise(s, p, "InvalidPathError")
         [] outcome \in {"null", "resolves-null", "resolves-undefined"} ->
              RejectModulePromise(s, p, "PathNotFoundError")
         [] outcome = "no-default" ->
              [s EXCEPT !.promises[p].state = "resolved",
                        !.loadedServiceModules[name] = Undefined]
         [] OTHER ->
              [s EXCEPT !.promises[p].state = "resolved",
                        !.loadedServiceModules[name] = DefaultExport(s, name)]

-----------------------------------------------------------------------------
(* ServiceManager: one task per invocation of loadService.  An instance is  *)
(* named by the invocation that constructed it.                             *)

NewTask(name, parent, batch, index, overlaps) ==
    [name |-> name,         \* the requested instance name
     parent |-> parent,     \* the invocation whose parseInjections made the call, 0 for a caller
     batch |-> batch,       \* the loadServices invocation that made the call, 0 for none
     index |-> index,       \* its position in the array given to loadServices
     pc |-> "start",        \* where the invocation is suspended
     def |-> 0,             \* index of its descriptor
     waits |-> <<>>,        \* the module promises its Promise.all awaits
     rejection |-> NoError, \* the rejection its Promise.all has taken
     idx |-> 1,             \* parseInjections: position of the injection being resolved
     args |-> <<>>,         \* parseInjections: loadedInjections
     child |-> 0,           \* parseInjections: the awaited loadService invocation
     built |-> FALSE,       \* createInstance: its constructor call has run
     cls |-> Undefined,     \* the class of the instance it constructed
     invoked |-> <<>>,      \* the post-build methods invoked on that instance, in order
     completed |-> 0,       \* how many of them have completed
     result |-> 0,          \* the instance it returned
     err |-> NoError,       \* the error it threw
     overlaps |-> overlaps] \* the invocations for the same name still running when it began

Finished(task) == task.pc \in {"done", "failed"}

\* Mutant: the values are collected in the order in which they arrive.
PromiseAllValuePushed(values, index, value) ==
    LET free == {k \in 1..Len(values) : values[k] = 0}
    IN [values EXCEPT ![CHOOSE k \in free : \A j \in free : k <= j] = value]

\* Where Promise.all puts the value of the index-th promise.
PromiseAllValue(values, index, value) == [values EXCEPT ![index] = value]

\* The invocation t returns `instance`; a Promise.all of loadServices that
\* holds its promise takes the value.
Return(s, t, instance) ==
    LET b == s.tasks[t].batch
        s1 == [s EXCEPT !.tasks[t].pc = "done", !.tasks[t].result = instance]
    IN IF b = 0 THEN s1
       ELSE LET values == PromiseAllValue(s.batches[b].values, s.tasks[t].index, instance)
                count == s.batches[b].fulfilled + 1
            IN [s1 EXCEPT !.batches[b].values = values,
                          !.batches[b].fulfilled = count,
                          !.batches[b].state =
                              IF @ = "pending" /\ count = Len(s.batches[b].names)
                              THEN "fulfilled" ELSE @]

\* Mutant: a failing invocation caches the instance it had constructed.
ThrowCachingInstance(s, t, err) ==
    LET b == s.tasks[t].batch
        s1 == [s EXCEPT !.tasks[t].pc = "failed", !.tasks[t].err = err,
                        !.loadedServices[s.tasks[t].name] =
                            IF s.tasks[t].built THEN t ELSE @]
    IN IF b = 0 \/ s.batches[b].state # "pending" THEN s1
       ELSE [s1 EXCEPT !.batches[b].state = "rejected", !.batches[b].err = err]

\* Mutant: a failing invocation evicts the module loaded for its name.
ThrowEvictingModule(s, t, err) ==
    LET b == s.tasks[t].batch
        s1 == [s EXCEPT !.tasks[t].pc = "failed", !.tasks[t].err = err,
                        !.loadedServiceModules[s.tasks[t].name] = Undefined]
    IN IF b = 0 \/ s.batches[b].state # "pending" THEN s1
       ELSE [s1 EXCEPT !.batches[b].state = "rejected", !.batches[b].err = err]

\* The invocation t throws `err`; a pending Promise.all of loadServices that
\* holds its promise rejects with it.
Throw(s, t, err) ==
    LET b == s.tasks[t].batch
        s1 == [s EXCEPT !.tasks[t].pc = "failed", !.tasks[t].err = err]
    IN IF b = 0 \/ s.batches[b].state # "pending" THEN s1
       ELSE [s1 EXCEPT !.batches[b].state = "rejected", !.batches[b].err = err]

\* The instance name under which task t builds: serviceDefinition.serviceInstanceName.
InstanceName(s, t) == s.serviceDefinitions[s.tasks[t].def].serviceInstanceName

\* Mutant: the methods are invoked without being awaited.
PostBuildActionsNotAwaited(s, t) ==
    [s EXCEPT !.tasks[t].invoked = s.serviceDefinitions[s.tasks[t].def].postBuildAsyncActions,
              !.tasks[t].pc = "afterPostBuild"]

\* Mutant: the methods are all invoked at once and awaited together.
PostBuildActionsAllAtOnce(s, t) ==
    LET declared == s.serviceDefinitions[s.tasks[t].def].postBuildAsyncActions
    IN IF s.tasks[t].completed >= Len(declared)
       THEN [s EXCEPT !.tasks[t].pc = "afterPostBuild"]
       ELSE [s EXCEPT !.tasks[t].invoked = declared, !.tasks[t].pc = "awaitPostBuild"]

\* Mutant: the error names the instance, not the class.
PostBuildActionsNamingInstance(s, t) ==
    LET def == s.serviceDefinitions[s.tasks[t].def]
        k == s.tasks[t].completed + 1
    IN IF k > Len(def.postBuildAsyncActions)
       THEN [s EXCEPT !.tasks[t].pc = "afterPostBuild"]
       ELSE LET methodName == def.postBuildAsyncActions[k] IN
            IF methodName \in Methods(s.tasks[t].cls)
            THEN [s EXCEPT !.tasks[t].invoked = Append(@, methodName),
                           !.tasks[t].pc = "awaitPostBuild"]
            ELSE Throw(s, t, Error("InvalidPostBuildActionError", methodName,
                                   def.serviceInstanceName))

\* Mutant: the entry of the load table is deleted when a post-build method
\* is missing.
PostBuildActionsDeletingEntry(s, t) ==
    LET def == s.serviceDefinitions[s.tasks[t].def]
        k == s.tasks[t].completed + 1
    IN IF k > Len(def.postBuildAsyncActions)
       THEN [s EXCEPT !.tasks[t].pc = "afterPostBuild"]
       ELSE LET methodName == def.postBuildAsyncActions[k] IN
            IF methodName \in Methods(s.tasks[t].cls)
            THEN [s EXCEPT !.tasks[t].invoked = Append(@, methodName),
                           !.tasks[t].pc = "awaitPostBuild"]
            ELSE Throw([s EXCEPT !.serviceModulePromises[def.serviceInstanceName] = 0],
                       t, Error("InvalidPostBuildActionError", methodName,
                                def.serviceClassName))

\* postBuildActions, from the action after the ones that have completed:
\* either invoke the next method and await it, or throw, or return.
PostBuildActions(s, t) ==
    LET def == s.serviceDefinitions[s.tasks[t].def]
        k == s.tasks[t].completed + 1
    IN IF k > Len(def.postBuildAsyncActions)
       THEN [s EXCEPT !.tasks[t].pc = "afterPostBuild"]
       ELSE LET methodName == def.postBuildAsyncActions[k] IN
            IF methodName \in Methods(s.tasks[t].cls)
            THEN [s EXCEPT !.tasks[t].invoked = Append(@, methodName),
                           !.tasks[t].pc = "awaitPostBuild"]
            ELSE Throw(s, t, Error("InvalidPostBuildActionError", methodName,
                                   def.serviceClassName))

\* Mutant: the instance is cached as soon as it is constructed.
ConstructCachedEarly(s, t) ==
    LET name == s.serviceDefinitions[s.tasks[t].def].serviceInstanceName
        DefinitionConstructor == s.loadedServiceModules[name]
    IN IF DefinitionConstructor = Undefined
       THEN [s EXCEPT !.tasks[t].pc = "failed",
                      !.tasks[t].err = Error("TypeError", name, "")]
       ELSE LET s1 == [s EXCEPT !.tasks[t].built = TRUE,
                                !.tasks[t].cls = DefinitionConstructor,
                                !.loadedServices[name] = t]
            IN IF s1.serviceDefinitions[s1.tasks[t].def].postBuildAsyncActions = <<>>
               THEN [s1 EXCEPT !.tasks[t].pc = "afterPostBuild"]
               ELSE [s1 EXCEPT !.tasks[t].invoked =
                                   <<s1.serviceDefinitions[s1.tasks[t].def].postBuildAsyncActions[1]>>,
                               !.tasks[t].pc = "awaitPostBuild"]

\* createInstance from `new DefinitionConstructor(...injections)` on.
Construct(s, t) ==
    LET name == InstanceName(s, t)
        DefinitionConstructor == GetLoadedModule(s, name)
    IN IF DefinitionConstructor = Undefined
       THEN Throw(s, t, Error("TypeError", name, ""))
       ELSE PostBuildActions([s EXCEPT !.tasks[t].built = TRUE,
                                       !.tasks[t].cls = DefinitionConstructor], t)

IsServiceInstanceInjection(injection) == injection.kind = "serviceInstanceName"

\* Mutant: whatever is no service reference counts as a custom injection.
IsCustomInjectionByDefault(injection) == injection.kind # "serviceInstanceName"

IsCustomInjection(injection) == injection.kind = "customInjection"

\* Whether JavaScript takes a resolved injection value as true: an instance
\* is an object; a literal is judged by its value.
TruthyValue(loadedInjection) == loadedInjection.inst # 0 \/ Truthy(loadedInjection.value)

\* Mutant: the value is put in front of the ones collected so far.
PushLoadedInjectionFront(loadedInjections, loadedInjection) ==
    IF TruthyValue(loadedInjection) THEN <<loadedInjection>> \o loadedInjections
    ELSE loadedInjections

\* Mutant: the value is pushed whatever it is.
PushLoadedInjectionAlways(loadedInjections, loadedInjection) ==
    Append(loadedInjections, loadedInjection)

\* if (loadedInjection) loadedInjections.push(loadedInjection)
PushLoadedInjection(loadedInjections, loadedInjection) ==
    IF TruthyValue(loadedInjection) THEN Append(loadedInjections, loadedInjection)
    ELSE loadedInjections

RECURSIVE LoadServiceInternal(_, _, _, _, _)
RECURSIVE ParseInjections(_, _)

\* createInstance from its beginning.
CreateInstance(s, t) ==
    IF s.serviceDefinitions[s.tasks[t].def].serviceInjections # <<>>
    THEN ParseInjections(s, t)
    ELSE Construct(s, t)

\* Mutant: the load of the descriptor's own module is started before the walk.
ResolveLoadingBeforeWalk(s, t) ==
    IF WalkOverflows(s, s.tasks[t].def)
    THEN Throw(LoadDependency(s, InstanceName(s, t)), t,
               Error("RangeError", InstanceName(s, t), ""))
    ELSE
           LET name == InstanceName(s, t)
               unloadedModuleNames ==
                   Append(GetUnloadedInjectionNames(s, s.tasks[t].def), name)
               s1 == LoadDependencies(s, unloadedModuleNames)
               waits == [k \in 1..Len(unloadedModuleNames) |->
                           s1.serviceModulePromises[unloadedModuleNames[k]]]
               rejected == {k \in 1..Len(waits) : Rejected(s1.promises[waits[k]])}
               first == waits[CHOOSE k \in rejected : \A j \in rejected : k <= j]
           IN [s1 EXCEPT !.tasks[t].pc = "awaitModules",
                         !.tasks[t].waits = waits,
                         !.tasks[t].rejection =
                             IF rejected = {} THEN NoError
                             ELSE Error(s1.promises[first].state, s1.promises[first].name, "")]

\* resolve: the names to load, the loads started, and the await of all of them;
\* a walk that never returns ends the call with the engine's RangeError.
Resolve(s, t) ==
    IF WalkOverflows(s, s.tasks[t].def)
    THEN Throw(s, t, Error("RangeError", InstanceName(s, t), ""))
    ELSE
           LET name == InstanceName(s, t)
               unloadedModuleNames ==
                   Append(GetUnloadedInjectionNames(s, s.tasks[t].def), name)
               s1 == LoadDependencies(s, unloadedModuleNames)
               waits == [k \in 1..Len(unloadedModuleNames) |->
                           s1.serviceModulePromises[unloadedModuleNames[k]]]
               rejected == {k \in 1..Len(waits) : Rejected(s1.promises[waits[k]])}
               first == waits[CHOOSE k \in rejected : \A j \in rejected : k <= j]
           IN [s1 EXCEPT !.tasks[t].pc = "awaitModules",
                         !.tasks[t].waits = waits,
                         !.tasks[t].rejection =
                             IF rejected = {} THEN NoError
                             ELSE Error(s1.promises[first].state, s1.promises[first].name, "")]

GetInstanceInternal(s, t) ==
    IF ~IsModuleLoaded(s, InstanceName(s, t))
    THEN Resolve(s, t)
    ELSE CreateInstance(s, t)

\* The loop of parseInjections from position tasks[t].idx, up to its next await.
ParseInjections(s, t) ==
    LET injections == s.serviceDefinitions[s.tasks[t].def].serviceInjections
        k == s.tasks[t].idx
    IN IF k > Len(injections)
       THEN [s EXCEPT !.tasks[t].pc = "construct"]
       ELSE CASE IsServiceInstanceInjection(injections[k]) ->
                   LoadServiceInternal(
                       [s EXCEPT !.tasks[t].pc = "awaitInjection",
                                 !.tasks[t].child = Len(s.tasks) + 1],
                       injections[k].name, t, 0, 0)
              [] IsCustomInjection(injections[k]) ->
                   ParseInjections(
                       [s EXCEPT !.tasks[t].idx = k + 1,
                                 !.tasks[t].args =
                                     PushLoadedInjection(@, LiteralValue(injections[k].value))], t)
              [] OTHER ->
                   Throw(s, t, Error("InvalidInjectionError", JSONStringify(injections[k]), ""))

\* loadService / loadServiceInternal, called by `parent` (0: by a caller of
\* the container), up to its first await.
LoadServiceInternal(s, serviceInstanceName, parent, batch, index) ==
    LET t == Len(s.tasks) + 1
        overlaps == {u \in 1..Len(s.tasks) :
                        /\ s.tasks[u].name = serviceInstanceName
                        /\ ~Finished(s.tasks[u])}
        s0 == [s EXCEPT !.tasks = Append(@, NewTask(serviceInstanceName, parent,
                                                    batch, index, overlaps))]
        service == s.loadedServices[serviceInstanceName]
        d == GetServiceDefinition(s.serviceDefinitions, serviceInstanceName)
    IN IF service # 0 THEN Return(s0, t, service)
       ELSE IF d = 0
       THEN Throw(s0, t, Error("DefinitionNotFoundError", serviceInstanceName, ""))
       ELSE GetInstanceInternal(
              [s0 EXCEPT !.tasks[t].def = d,
                         !.serviceDefinitions[d].serviceInstanceName =
                             IF @ = Absent THEN s.serviceDefinitions[d].serviceClassName
                             ELSE @], t)

\* loadServices: the map over the names from position `index` on, each call
\* running up to its first await.
RECURSIVE MapLoadService(_, _, _, _)
MapLoadService(s, serviceInstanceNames, batch, index) ==
    IF index > Len(serviceInstanceNames) THEN s
    ELSE MapLoadService(
             LoadServiceInternal(s, serviceInstanceNames[index], 0, batch, index),
             serviceInstanceNames, batch, index + 1)

\* loadServices up to its await of Promise.all.
LoadServicesInternal(s, serviceInstanceNames) ==
    MapLoadService(
        [s EXCEPT !.batches =
            Append(@, [names |-> serviceInstanceNames,
                       state |-> IF serviceInstanceNames = <<>> THEN "fulfilled"
                                 ELSE "pending",
                       values |-> [k \in 1..Len(serviceInstanceNames) |-> 0],
                       fulfilled |-> 0,
                       result |-> <<>>,
                       err |-> NoError])],
        serviceInstanceNames, Len(s.batches) + 1, 1)

-----------------------------------------------------------------------------
(* The state after `new ServiceManager({ serviceDefinitions })`.            *)

\* Mutant: the keys are the class names.
PopulateAvailableServiceNamesByClass(defs) ==
    [n \in {defs[i].serviceClassName : i \in 1..Len(defs)} |-> n]

\* SERVICES: one identity entry per descriptor, under its instance name or,
\* without one, its class name.
PopulateAvailableServiceNames(defs) ==
    [n \in {EffectiveName(defs[i]) : i \in 1..Len(defs)} |-> n]

\* Mutant: the constructor loads the module of every descriptor.
InitTableEager(table) ==
    /\ serviceDefinitions = table
    /\ SERVICES = PopulateAvailableServiceNames(table)
    /\ loadedServiceModules =
          [n \in Names |-> IF \E i \in 1..Len(table) : EffectiveName(table[i]) = n
                           THEN n ELSE Undefined]
    /\ serviceModulePromises = [n \in Names |-> 0]
    /\ loadedServices = [n \in Names |-> 0]
    /\ promises = <<>>
    /\ accessorCalls =
          [n \in Names |-> IF \E i \in 1..Len(table) : EffectiveName(table[i]) = n
                           THEN 1 ELSE 0]
    /\ tasks = <<>>
    /\ batches = <<>>

\* The container constructed with `table`.
InitTable(table) ==
    /\ serviceDefinitions = table
    /\ SERVICES = PopulateAvailableServiceNames(table)
    /\ loadedServiceModules = [n \in Names |-> Undefined]
    /\ serviceModulePromises = [n \in Names |-> 0]
    /\ loadedServices = [n \in Names |-> 0]
    /\ promises = <<>>
    /\ accessorCalls = [n \in Names |-> 0]
    /\ tasks = <<>>
    /\ batches = <<>>

Init == \E table \in Tables : InitTable(table)

InitCases == \E table \in CaseTables : InitTable(table)

InitLater == \E table \in LaterTables : InitTable(table)

InitDiamond == \E table \in DiamondTables : InitTable(table)

\* The loadService invocations callers have asked for so far, directly or as
\* an entry of loadServices (an empty loadServices counts as one).
NumCalls ==
    Cardinality({t \in 1..Len(tasks) : tasks[t].parent = 0})
    + Cardinality({b \in 1..Len(batches) : batches[b].names = <<>>})

-----------------------------------------------------------------------------
(* Actions. *)

\* A caller calls loadService(name); `max` bounds the calls of the run.
LoadService(name, max) ==
    /\ NumCalls < max
    /\ Commit(LoadServiceInternal(State, name, 0, 0, 0))

\* A caller calls loadServices(names); `max` bounds the calls of the run.
LoadServices(names, max) ==
    /\ NumCalls + (IF names = <<>> THEN 1 ELSE Len(names)) <= max
    /\ Commit(LoadServicesInternal(State, names))

\* The import started by loadDependency settles; loadDependency runs on.
ModuleSettles(p) ==
    /\ promises[p].state = "pending"
    /\ Commit(SettleDependency(State, p))

\* Every module promise task t awaits is fulfilled: resolve returns and
\* getInstanceInternal goes on to createInstance.
ModulesLoaded(t) ==
    /\ tasks[t].pc = "awaitModules"
    /\ \A k \in 1..Len(tasks[t].waits) : promises[tasks[t].waits[k]].state = "resolved"
    /\ Commit(CreateInstance(State, t))

\* A module promise task t awaits is rejected: the rejection propagates.
ModulesFailed(t) ==
    /\ tasks[t].pc = "awaitModules"
    /\ tasks[t].rejection # NoError
    /\ Commit(Throw(State, t, tasks[t].rejection))

\* The loadService that parseInjections awaits has returned an instance.
InjectionLoaded(t) ==
    /\ tasks[t].pc = "awaitInjection"
    /\ tasks[tasks[t].child].pc = "done"
    /\ Commit(ParseInjections(
           [State EXCEPT !.tasks[t].idx = @ + 1,
                         !.tasks[t].args =
                             PushLoadedInjection(@, InstanceValue(tasks[tasks[t].child].result))], t))

\* Mutant: parseInjections goes on when the loadService it awaits has thrown.
InjectionFailedSwallowed(t) ==
    /\ tasks[t].pc = "awaitInjection"
    /\ tasks[tasks[t].child].pc = "failed"
    /\ Commit(ParseInjections([State EXCEPT !.tasks[t].idx = @ + 1], t))

\* The loadService that parseInjections awaits has thrown.
InjectionFailed(t) ==
    /\ tasks[t].pc = "awaitInjection"
    /\ tasks[tasks[t].child].pc = "failed"
    /\ Commit(Throw(State, t, tasks[tasks[t].child].err))

\* parseInjections has returned: the constructor runs, post-build actions begin.
Constructs(t) ==
    /\ tasks[t].pc = "construct"
    /\ Commit(Construct(State, t))

\* The awaited post-build action completes; postBuildActions runs on.
PostBuildActionCompletes(t) ==
    /\ tasks[t].pc = "awaitPostBuild"
    /\ Commit(PostBuildActions([State EXCEPT !.tasks[t].completed = @ + 1], t))

\* postBuildActions has returned: createInstance deletes the module promise.
ModulePromiseDeleted(t) ==
    /\ tasks[t].pc = "afterPostBuild"
    /\ Commit([DeleteModulePromise(State, InstanceName(State, t))
                 EXCEPT !.tasks[t].pc = "cache"])

\* Mutant: the instance is cached under every instance name of its class.
InstanceCachedForClass(t) ==
    /\ tasks[t].pc = "cache"
    /\ Commit(Return([State EXCEPT !.loadedServices =
                         [n \in Names |->
                            IF \E i \in 1..Len(serviceDefinitions) :
                                  /\ EffectiveName(serviceDefinitions[i]) = n
                                  /\ serviceDefinitions[i].serviceClassName = tasks[t].cls
                            THEN t ELSE @[n]]], t, t))

\* createInstance has returned: getInstanceInternal caches and returns.
InstanceCached(t) ==
    /\ tasks[t].pc = "cache"
    /\ Commit(Return([State EXCEPT !.loadedServices[InstanceName(State, t)] = t], t, t))

\* The Promise.all of loadServices is fulfilled: loadServices returns its values.
LoadServicesReturns(b) ==
    /\ batches[b].state = "fulfilled"
    /\ batches' = [batches EXCEPT ![b].state = "returned",
                                  ![b].result = batches[b].values]
    /\ UNCHANGED <<serviceDefinitions, SERVICES, loadedServiceModules,
                   serviceModulePromises, loadedServices, promises,
                   accessorCalls, tasks>>

\* The Promise.all of loadServices is rejected: loadServices throws.
LoadServicesThrows(b) ==
    /\ batches[b].state = "rejected"
    /\ batches' = [batches EXCEPT ![b].state = "thrown"]
    /\ UNCHANGED <<serviceDefinitions, SERVICES, loadedServiceModules,
                   serviceModulePromises, loadedServices, promises,
                   accessorCalls, tasks>>

\* The arrays a caller may hand to loadServices.
AllBatches == { <<>>, <<"X", "Y">>, <<"Y", "D">>, <<"P", "R">>,
                <<"myService", "myOtherService">>, <<"F", "I">> }

\* The calls of the callers of the container.
Calls(max) ==
    \/ \E name \in RequestNames(serviceDefinitions) : LoadService(name, max)
    \/ \E names \in AllBatches :
          /\ SeqToSet(names) \subseteq RequestNames(serviceDefinitions)
          /\ LoadServices(names, max)

\* The continuations of the suspended invocations.
Continuations ==
    \/ \E p \in 1..Len(promises) : ModuleSettles(p)
    \/ \E t \in 1..Len(tasks) : ModulesLoaded(t)
    \/ \E t \in 1..Len(tasks) : ModulesFailed(t)
    \/ \E t \in 1..Len(tasks) : InjectionLoaded(t)
    \/ \E t \in 1..Len(tasks) : InjectionFailed(t)
    \/ \E t \in 1..Len(tasks) : Constructs(t)
    \/ \E t \in 1..Len(tasks) : PostBuildActionCompletes(t)
    \/ \E t \in 1..Len(tasks) : ModulePromiseDeleted(t)
    \/ \E t \in 1..Len(tasks) : InstanceCached(t)
    \/ \E b \in 1..Len(batches) : LoadServicesReturns(b)
    \/ \E b \in 1..Len(batches) : LoadServicesThrows(b)

Next == Calls(MaxCalls) \/ Continuations

Spec == Init /\ [][Next]_vars

\* The same container with room for one more call, for the claims about a
\* request that comes after two overlapping ones.
NextLater == Calls(MaxCallsLater) \/ Continuations

SpecLater == InitLater /\ [][NextLater]_vars

\* The container constructed with any of the descriptor tables.
SpecCases == InitCases /\ [][Next]_vars

\* The container with the diamond of dependencies.
-----------------------------------------------------------------------------
(* The static variant: the descriptor table and SERVICES are static fields,
   the caches belong to the lazily created static instance.  initialize and
   reset are modelled when no invocation is in flight: an invocation of the
   dropped instance would go on with caches of its own.                     *)

\* No invocation is suspended, no import is pending, every loadServices has
\* handed its outcome to its caller.
Quiescent ==
    /\ \A t \in 1..Len(tasks) : Finished(tasks[t])
    /\ \A p \in 1..Len(promises) : promises[p].state # "pending"
    /\ \A b \in 1..Len(batches) : batches[b].state \in {"returned", "thrown"}

\* Before initialize: no descriptor, no instance.
InitStatic == InitTable(<<>>)

\* initialize({serviceDefinitions}): the table and SERVICES are replaced; the
\* instance, if there is one, is kept with its caches.
Initialize(table) ==
    /\ Quiescent
    /\ serviceDefinitions' = table
    /\ SERVICES' = PopulateAvailableServiceNames(table)
    /\ UNCHANGED <<loadedServiceModules, serviceModulePromises, loadedServices,
                   promises, accessorCalls, tasks, batches>>

\* Mutant: reset leaves the instance in place.
ResetKeepingInstance ==
    /\ Quiescent
    /\ SERVICES' = PopulateAvailableServiceNames(<<>>)
    /\ serviceDefinitions' = <<>>
    /\ UNCHANGED <<loadedServiceModules, serviceModulePromises, loadedServices,
                   promises, accessorCalls, tasks, batches>>

\* reset(): the instance is dropped, and with it its three caches; SERVICES
\* and the table are emptied.
Reset ==
    /\ Quiescent
    /\ loadedServices' = [n \in Names |-> 0]
    /\ loadedServiceModules' = [n \in Names |-> Undefined]
    /\ serviceModulePromises' = [n \in Names |-> 0]
    /\ SERVICES' = PopulateAvailableServiceNames(<<>>)
    /\ serviceDefinitions' = <<>>
    /\ UNCHANGED <<promises, accessorCalls, tasks, batches>>

\* The names callers of the static container ask for, whatever the table.
StaticNames == UNION {RequestNames(table) : table \in Tables}

NextStatic ==
    \/ Calls(MaxCalls)
    \/ \E name \in StaticNames : LoadService(name, MaxCalls)
    \/ Continuations
    \/ \E table \in Tables : Initialize(table)
    \/ Reset

SpecStatic == InitStatic /\ [][NextStatic]_vars

\* Mutant: the module cache survives the instance.
DropInstanceKeepingModules ==
    /\ Quiescent
    /\ loadedServices' = [n \in Names |-> 0]
    /\ serviceModulePromises' = [n \in Names |-> 0]
    /\ UNCHANGED <<serviceDefinitions, SERVICES, loadedServiceModules,
                   promises, accessorCalls, tasks, batches>>

\* ServiceManager['instance'] = null: the instance is dropped, and with it
\* its three caches; the static table and SERVICES stay.
DropInstance ==
    /\ Quiescent
    /\ loadedServices' = [n \in Names |-> 0]
    /\ loadedServiceModules' = [n \in Names |-> Undefined]
    /\ serviceModulePromises' = [n \in Names |-> 0]
    /\ UNCHANGED <<serviceDefinitions, SERVICES, promises, accessorCalls, tasks, batches>>

NextDropped ==
    \/ Calls(MaxCalls)
    \/ \E name \in StaticNames : LoadService(name, MaxCalls)
    \/ Continuations
    \/ \E table \in Tables : Initialize(table)
    \/ DropInstance

SpecDropped == InitStatic /\ [][NextDropped]_vars

\* The event loop runs every continuation that is ready.
SpecFair == Spec /\ WF_vars(Continuations)

SpecCasesFair == SpecCases /\ WF_vars(Continuations)

InitCycle == \E table \in CycleTables : InitTable(table)

SpecCycle == InitCycle /\ [][Next]_vars

SpecDiamond == InitDiamond /\ [][Next]_vars

-----------------------------------------------------------------------------
(* Vocabulary of the claims. *)

TaskIds == 1..Len(tasks)

\* The invocations a caller of the container made: direct calls of
\* loadService and the entries of loadServices.
CallerTasks == {t \in TaskIds : tasks[t].parent = 0}

\* The instances built under the instance name n (one per constructor call).
InstancesOf(n) == {t \in TaskIds : tasks[t].built /\ tasks[t].name = n}

DeclaredActions(t) == serviceDefinitions[tasks[t].def].postBuildAsyncActions

\* The constructor of instance i has run and every declared post-build
\* action has been invoked and has completed.
FullyBuilt(i) ==
    /\ tasks[i].built
    /\ tasks[i].invoked = DeclaredActions(i)
    /\ tasks[i].completed = Len(DeclaredActions(i))

\* Invocation t began after invocation u for the same name had finished.
BeganAfter(t, u) == u < t /\ tasks[u].name = tasks[t].name /\ u \notin tasks[t].overlaps

\* The names the descriptor of the name n references by service injection.
ReferencedNames(n) ==
    LET d == GetServiceDefinition(serviceDefinitions, n)
        inj == IF d = 0 THEN <<>> ELSE serviceDefinitions[d].serviceInjections
    IN {inj[k].name : k \in {j \in 1..Len(inj) : inj[j].kind = "serviceInstanceName"}}

\* The instances among the constructor arguments of invocation t.
InjectedInstances(t) ==
    {tasks[t].args[k].inst : k \in {j \in 1..Len(tasks[t].args) : tasks[t].args[j].inst # 0}}

-----------------------------------------------------------------------------
(* Claims. *)

\* C1: two overlapping loadService(N) calls of a caller (the second begins
\* while the first is still running) that both return yield the identical
\* instance, and the constructor of N has run exactly once.
C1_OverlappingCallsShareOneInstance ==
    \A t2 \in CallerTasks : \A t1 \in tasks[t2].overlaps \cap CallerTasks :
        (tasks[t1].pc = "done" /\ tasks[t2].pc = "done")
        => /\ tasks[t1].result = tasks[t2].result
           /\ Cardinality(InstancesOf(tasks[t1].name)) = 1

\* C2: once a caller's loadService(N) has returned an instance, every request
\* for N that begins later (a direct call, an entry of loadServices or a
\* service injection) returns that same instance at once, without loading a
\* module or constructing anything.
C2_LaterRequestsReuseCompletedInstance ==
    \A u \in CallerTasks : \A t \in TaskIds :
        (tasks[u].pc = "done" /\ BeganAfter(t, u))
        => /\ tasks[t].pc = "done"
           /\ tasks[t].result = tasks[u].result
           /\ ~tasks[t].built
           /\ tasks[t].waits = <<>>

\* C3: when loadServices([X, Y]) is the only call made on a fresh container
\* and X and Y both reference D, then once it has returned the constructor of
\* D has run exactly once and X and Y were both constructed with the
\* instance cached under D.
C3_SharedDependencyBuiltOnce ==
    \A b \in 1..Len(batches) :
        (batches[b].state = "returned" /\ \A t \in CallerTasks : tasks[t].batch = b)
        => \A x \in CallerTasks : \A y \in CallerTasks \ {x} :
             \A d \in ReferencedNames(tasks[x].name) \cap ReferencedNames(tasks[y].name) :
                /\ Cardinality(InstancesOf(d)) = 1
                /\ loadedServices[d] \in InjectedInstances(tasks[x].result)
                /\ loadedServices[d] \in InjectedInstances(tasks[y].result)

\* C4: the module accessor of every name is invoked at most once, and no
\* name ever has two load promises: concurrent requesters share one.
C4_AccessorInvokedAtMostOnce ==
    /\ \A n \in Names : accessorCalls[n] <= 1
    /\ \A p, q \in 1..Len(promises) : promises[p].name = promises[q].name => p = q

\* Two invocations have awaited the one load of D, whose accessor was invoked.
C4_Witness ==
    /\ accessorCalls["D"] = 1
    /\ \E t1, t2 \in TaskIds :
          /\ t1 # t2
          /\ tasks[t1].pc = "done" /\ tasks[t2].pc = "done"
          /\ \E k1 \in 1..Len(tasks[t1].waits), k2 \in 1..Len(tasks[t2].waits) :
                /\ tasks[t1].waits[k1] = tasks[t2].waits[k2]
                /\ promises[tasks[t1].waits[k1]].name = "D"

\* C5: an instance in the Singleton Instance Cache, and an instance returned
\* by loadService, has had its constructor and all of its declared
\* post-build actions completed.
C5_CachedImpliesFullyBuilt ==
    /\ \A n \in Names : loadedServices[n] # 0 =>
          /\ tasks[loadedServices[n]].name = n
          /\ FullyBuilt(loadedServices[n])
    /\ \A t \in TaskIds : tasks[t].pc = "done" =>
          /\ tasks[tasks[t].result].name = tasks[t].name
          /\ FullyBuilt(tasks[t].result)

\* Y, which declares two post-build actions, is cached and was returned.
C5_Witness ==
    /\ loadedServices["Y"] # 0
    /\ Len(DeclaredActions(loadedServices["Y"])) = 2
    /\ \E t \in CallerTasks : tasks[t].pc = "done" /\ tasks[t].name = "Y"

\* C6: a Singleton Instance Cache entry, once set, is never replaced by a
\* different instance.
C6_CacheEntryNeverReplaced ==
    [][\A n \in Names : loadedServices[n] # 0 => loadedServices'[n] = loadedServices[n]]_vars

\* C7: when the constructor of X has run, every service X references has an
\* instance among X's constructor arguments that was fully built (constructor
\* and all post-build actions) beforehand.
C7_DependenciesCompleteBeforeConstruction ==
    \A t \in TaskIds : tasks[t].built =>
        \A d \in ReferencedNames(tasks[t].name) :
            \E i \in InjectedInstances(t) : tasks[i].name = d /\ FullyBuilt(i)

\* X has been constructed with an instance of D.
C7_Witness ==
    \E t \in TaskIds :
        /\ tasks[t].built /\ tasks[t].name = "X"
        /\ \E i \in InjectedInstances(t) : tasks[i].name = "D"

\* C8: the post-build actions of one build are invoked in declared order,
\* each only after the previous one has completed, all after the constructor
\* has run and before the instance is cached or returned.
C8_PostBuildActionsSequential ==
    \A t \in TaskIds :
        /\ tasks[t].invoked # <<>> => tasks[t].built
        /\ tasks[t].built =>
              /\ Len(tasks[t].invoked) <= Len(DeclaredActions(t))
              /\ tasks[t].invoked = SubSeq(DeclaredActions(t), 1, Len(tasks[t].invoked))
              /\ tasks[t].completed <= Len(tasks[t].invoked)
              /\ Len(tasks[t].invoked) <= tasks[t].completed + 1
        /\ (tasks[t].built /\ (tasks[t].pc \in {"cache", "done"}
                               \/ \E n \in Names : loadedServices[n] = t
                               \/ \E u \in TaskIds : tasks[u].result = t))
              => tasks[t].completed = Len(DeclaredActions(t))

\* A build of Y is in its second post-build action, the first one completed.
C8_Witness ==
    \E t \in TaskIds :
        /\ tasks[t].name = "Y" /\ tasks[t].pc = "awaitPostBuild"
        /\ tasks[t].invoked = <<"postBuildMethod", "warmUp">>
        /\ tasks[t].completed = 1

\* The invocation of loadServices invocation b for the k-th entry of its array.
BatchTask(b, k) == CHOOSE t \in TaskIds : tasks[t].batch = b /\ tasks[t].index = k

\* C9: loadServices returns a sequence as long as its input whose i-th
\* element is the instance the i-th loadService returned, an instance of the
\* i-th name, whatever the order of completion; the empty input yields the
\* empty sequence.
C9_LoadServicesResultMatchesInput ==
    \A b \in 1..Len(batches) : batches[b].state = "returned" =>
        /\ Len(batches[b].result) = Len(batches[b].names)
        /\ \A k \in 1..Len(batches[b].names) :
              /\ batches[b].result[k] = tasks[BatchTask(b, k)].result
              /\ batches[b].result[k] # 0
              /\ tasks[batches[b].result[k]].name = batches[b].names[k]

\* loadServices(["Y", "D"]) has returned two instances although D, the
\* second entry, was built and cached before Y was even constructed.
C9_Witness ==
    \E b \in 1..Len(batches) :
        /\ batches[b].state = "returned" /\ batches[b].names = <<"Y", "D">>
        /\ Len(batches[b].result) = 2
        /\ tasks[BatchTask(b, 2)].built
        /\ BatchTask(b, 2) \in InjectedInstances(BatchTask(b, 1))

\* C10: a loadService call of a caller for a name that matches no descriptor
\* fails at once with Definition Not Found for exactly that name and changes
\* nothing else: no accessor is invoked, no load is started, and the Loaded
\* Module Cache, In-Flight Load Table and Singleton Instance Cache stay as
\* they were.
C10_UnknownNameFailsWithoutEffect ==
    [][(/\ Len(tasks') = Len(tasks) + 1
        /\ tasks'[Len(tasks')].parent = 0
        /\ tasks'[Len(tasks')].batch = 0
        /\ \A i \in 1..Len(serviceDefinitions) :
              EffectiveName(serviceDefinitions[i]) # tasks'[Len(tasks')].name)
       => /\ tasks'[Len(tasks')].pc = "failed"
          /\ tasks'[Len(tasks')].err =
                Error("DefinitionNotFoundError", tasks'[Len(tasks')].name, "")
          /\ UNCHANGED <<serviceDefinitions, SERVICES, loadedServiceModules,
                         serviceModulePromises, loadedServices, promises,
                         accessorCalls, batches>>
          /\ \A t \in TaskIds : tasks'[t] = tasks[t]]_vars

\* loadService("Unknown") has failed with Definition Not Found on a container
\* that has loaded a module and cached an instance.
C10_Witness ==
    /\ \E t \in CallerTasks :
          /\ tasks[t].name = "Unknown" /\ tasks[t].pc = "failed"
          /\ tasks[t].err = Error("DefinitionNotFoundError", "Unknown", "")
    /\ \E n \in Names : loadedServices[n] # 0

\* The names no descriptor of the table answers to.
HasDescriptor(n) ==
    \E i \in 1..Len(serviceDefinitions) : EffectiveName(serviceDefinitions[i]) = n

\* The names X references by service injection that have no descriptor.
MissingReferences(n) == {m \in ReferencedNames(n) : ~HasDescriptor(m)}

PathToService(n) ==
    LET d == GetServiceDefinition(serviceDefinitions, n)
    IN IF d = 0 THEN Absent ELSE serviceDefinitions[d].pathToService

\* C12 (as stated): when the module accessor of N throws or rejects, every
\* loadService(N) fails with Invalid Path naming N; N never enters the Loaded Module Cache,
\* the constructor of N never runs and N is never cached.
C12_FailingAccessorIsInvalidPath ==
    \A n \in Names : PathToService(n) \in {"throws", "rejects"} =>
        /\ loadedServiceModules[n] = Undefined
        /\ InstancesOf(n) = {}
        /\ loadedServices[n] = 0
        /\ \A t \in TaskIds : tasks[t].name = n =>
              /\ tasks[t].pc # "done"
              /\ tasks[t].pc = "failed" => tasks[t].err = Error("InvalidPathError", n, "")

\* Two calls of loadService for the service whose accessor rejects have
\* failed, the second one made after the first had failed.
C12_Witness ==
    \E t, u \in CallerTasks :
        /\ t < u /\ tasks[t].name = "Q" /\ tasks[u].name = "Q"
        /\ tasks[u].overlaps = {}
        /\ tasks[t].err = Error("InvalidPathError", "Q", "")
        /\ tasks[u].err = Error("InvalidPathError", "Q", "")
        /\ accessorCalls["Q"] = 1

\* C13: when the descriptor of N has no module accessor, or the accessor
\* resolves to null, undefined or a module without default export, every
\* load of N fails with Path Not Found naming N and the Loaded Module Cache
\* holds nothing for N.
C13_NoUsableModuleIsPathNotFound ==
    \A n \in Names :
        (HasDescriptor(n) /\ PathToService(n) \in {Absent, "resolves-null",
                                                   "resolves-undefined", "no-default"}) =>
            /\ loadedServiceModules[n] = Undefined
            /\ \A t \in TaskIds : tasks[t].name = n =>
                  /\ tasks[t].pc # "done"
                  /\ tasks[t].pc = "failed" =>
                        tasks[t].err = Error("PathNotFoundError", n, "")

\* The positions of the injections of the descriptor of n that have neither
\* the service-reference nor the custom-injection shape.
InvalidInjections(n) ==
    LET d == GetServiceDefinition(serviceDefinitions, n)
        inj == IF d = 0 THEN <<>> ELSE serviceDefinitions[d].serviceInjections
    IN {k \in 1..Len(inj) : inj[k].kind \notin {"serviceInstanceName", "customInjection"}}

MissingActions(t) ==
    {k \in 1..Len(DeclaredActions(t)) :
        DeclaredActions(t)[k] \notin Methods(serviceDefinitions[tasks[t].def].serviceClassName)}

\* C15: when a declared post-build action of X is no method of the built
\* instance, loadService(X) fails with Invalid Post-Build Action naming that
\* method and the class of X; by then the constructor has run and exactly
\* the actions declared before it have run and completed, none after it is
\* ever invoked, and X is never cached.
C15_InvalidPostBuildActionAfterConstruction ==
    \A t \in TaskIds : (tasks[t].def # 0 /\ MissingActions(t) # {}) =>
        LET bad == CHOOSE k \in MissingActions(t) : \A j \in MissingActions(t) : k <= j
        IN /\ tasks[t].pc # "done"
           /\ loadedServices[tasks[t].name] = 0
           /\ Len(tasks[t].invoked) < bad
           /\ tasks[t].pc = "failed" =>
                 /\ tasks[t].err = Error("InvalidPostBuildActionError",
                                         DeclaredActions(t)[bad],
                                         serviceDefinitions[tasks[t].def].serviceClassName)
                 /\ tasks[t].built
                 /\ tasks[t].invoked = SubSeq(DeclaredActions(t), 1, bad - 1)
                 /\ tasks[t].completed = bad - 1

\* loadService("e1") has failed on the second declared action of the class
\* E, after the first one ran.
C15_Witness ==
    \E t \in CallerTasks :
        /\ tasks[t].name = "e1" /\ tasks[t].pc = "failed" /\ tasks[t].built
        /\ tasks[t].err = Error("InvalidPostBuildActionError", "nonExistentMethod", "E")
        /\ tasks[t].invoked = <<"postBuildMethod">>
        /\ tasks[t].completed = 1

\* The injections declared by the descriptor of invocation t.
DeclaredInjections(t) ==
    IF tasks[t].def = 0 THEN <<>> ELSE serviceDefinitions[tasks[t].def].serviceInjections

\* The constructor argument `arg` is what the injection resolves to: an
\* instance of the referenced service, or the literal itself.
ResolvesTo(injection, arg) ==
    IF injection.kind = "serviceInstanceName"
    THEN arg.inst # 0 /\ tasks[arg.inst].name = injection.name
    ELSE arg.inst = 0 /\ arg.value = injection.value

\* The positions of the injections of t whose resolved value is passed on:
\* the service references and the literals JavaScript takes as true.
PassedInjections(t) ==
    {k \in 1..Len(DeclaredInjections(t)) :
        \/ DeclaredInjections(t)[k].kind = "serviceInstanceName"
        \/ /\ DeclaredInjections(t)[k].kind = "customInjection"
           /\ DeclaredInjections(t)[k].value \notin Falsy}

\* C16: the constructor of X receives the resolved injections in declaration
\* order: of any two injections that are passed, service reference or custom
\* value, the one declared earlier stands at the earlier argument position.
C16_ArgumentsInDeclarationOrder ==
    \A t \in TaskIds : tasks[t].built =>
        \A i, j \in PassedInjections(t) : i < j =>
            \E ki, kj \in 1..Len(tasks[t].args) :
                /\ ki < kj
                /\ ResolvesTo(DeclaredInjections(t)[i], tasks[t].args[ki])
                /\ ResolvesTo(DeclaredInjections(t)[j], tasks[t].args[kj])

\* X, declared [D, "alpha"], and Y, declared ["beta", D], have both been
\* constructed, with (instance, "alpha") and ("beta", instance).
C16_Witness ==
    \E x, y \in TaskIds :
        /\ tasks[x].name = "X" /\ tasks[x].built
        /\ tasks[y].name = "Y" /\ tasks[y].built
        /\ Len(tasks[x].args) = 2 /\ tasks[x].args[2] = LiteralValue("alpha")
        /\ Len(tasks[y].args) = 2 /\ tasks[y].args[1] = LiteralValue("beta")
        /\ tasks[x].args[1].inst # 0 /\ tasks[y].args[2].inst # 0

\* The k-th smallest element of the set S of numbers.
RECURSIVE Nth(_, _)
Nth(S, k) ==
    LET least == CHOOSE i \in S : \A j \in S : i <= j
    IN IF k = 1 THEN least ELSE Nth(S \ {least}, k - 1)

SharedClassNames ==
    {<<serviceDefinitions[i].serviceInstanceName, serviceDefinitions[j].serviceInstanceName>> :
        <<i, j>> \in {p \in (1..Len(serviceDefinitions)) \X (1..Len(serviceDefinitions)) :
                        /\ serviceDefinitions[p[1]].serviceClassName =
                              serviceDefinitions[p[2]].serviceClassName
                        /\ serviceDefinitions[p[1]].serviceInstanceName # Absent
                        /\ serviceDefinitions[p[2]].serviceInstanceName # Absent
                        /\ serviceDefinitions[p[1]].serviceInstanceName #
                              serviceDefinitions[p[2]].serviceInstanceName}}

\* The instance cached under n is of the class of the descriptor of n and
\* was constructed with what the injections of that descriptor resolve to.
BuiltFromOwnDescriptor(n) ==
    LET t == loadedServices[n]
        def == serviceDefinitions[GetServiceDefinition(serviceDefinitions, n)]
    IN /\ tasks[t].name = n
       /\ tasks[t].cls = def.serviceClassName
       /\ Len(tasks[t].args) = Len(def.serviceInjections)
       /\ \A k \in 1..Len(tasks[t].args) :
             ResolvesTo(def.serviceInjections[k], tasks[t].args[k])

\* C18: of two descriptors with one class name, different instance names and
\* different injections, each gets its own instance, cached under its own
\* instance name and constructed with the injections of its own descriptor;
\* a step that writes the cache entry of one is a step of a load of that
\* one and leaves the entry of the other as it was.
C18_InstanceNamesCachedIndependently ==
    /\ [](\A pair \in SharedClassNames :
            /\ loadedServices[pair[1]] # 0 => BuiltFromOwnDescriptor(pair[1])
            /\ (loadedServices[pair[1]] # 0 /\ loadedServices[pair[2]] # 0)
                  => loadedServices[pair[1]] # loadedServices[pair[2]])
    /\ [][\A pair \in SharedClassNames :
            loadedServices'[pair[1]] # loadedServices[pair[1]] =>
                /\ tasks'[loadedServices'[pair[1]]].name = pair[1]
                /\ loadedServices'[pair[2]] = loadedServices[pair[2]]]_vars

\* myService and myOtherService, both of class S, are both cached.
C18_Witness ==
    /\ loadedServices["myService"] # 0
    /\ loadedServices["myOtherService"] # 0
    /\ tasks[loadedServices["myService"]].cls = "S"
    /\ tasks[loadedServices["myOtherService"]].cls = "S"
    /\ tasks[loadedServices["myService"]].args[2] = LiteralValue("alpha")
    /\ tasks[loadedServices["myOtherService"]].args[2] = LiteralValue("beta")

\* The descriptor at position i answers to the name n: by its explicit
\* instance name or, having none, by its class name.
AnswersTo(i, n) ==
    IF serviceDefinitions[i].serviceInstanceName # Absent
    THEN serviceDefinitions[i].serviceInstanceName = n
    ELSE serviceDefinitions[i].serviceClassName = n

C20_ServicesIsIdentityOnInstanceNames ==
    /\ [](/\ DOMAIN SERVICES =
                {IF serviceDefinitions[i].serviceInstanceName # Absent
                 THEN serviceDefinitions[i].serviceInstanceName
                 ELSE serviceDefinitions[i].serviceClassName :
                    i \in 1..Len(serviceDefinitions)}
           /\ \A n \in DOMAIN SERVICES : SERVICES[n] = n)
    /\ [][SERVICES' = SERVICES]_vars

\* On the container with two instance names of the class S, after a load
\* has cached myService and another call has failed, SERVICES has the keys
\* myService, myOtherService, A and B, and not S.
C20_Witness ==
    /\ DOMAIN SERVICES = {"myService", "myOtherService", "A", "B"}
    /\ loadedServices["myService"] # 0
    /\ \E t \in CallerTasks : tasks[t].pc = "failed"

\* C21: initialization is lazy.  Before the first load call the descriptor
\* table is the supplied sequence, no module accessor has been invoked, no
\* constructor has run, and the Loaded Module Cache, the In-Flight Load
\* Table and the Singleton Instance Cache are empty.
C21_InitializationIsLazy ==
    (tasks = <<>> /\ batches = <<>>) =>
        /\ serviceDefinitions \in CaseTables
        /\ promises = <<>>
        /\ \A n \in Names :
              /\ accessorCalls[n] = 0
              /\ loadedServiceModules[n] = Undefined
              /\ serviceModulePromises[n] = 0
              /\ loadedServices[n] = 0

\* The container just constructed with the five descriptors of NamingTable.
C21_Witness ==
    /\ tasks = <<>> /\ batches = <<>>
    /\ serviceDefinitions = NamingTable
    /\ DOMAIN SERVICES = {"myService", "myOtherService", "A", "B"}

\* The names reachable from the set S of names along service-reference
\* injections, S included.
RECURSIVE ClosureOf(_)
ClosureOf(S) ==
    LET next == S \cup UNION {ReferencedNames(n) : n \in S}
    IN IF next = S THEN S ELSE ClosureOf(next)

\* The names the callers of the container have asked for so far.
RequestedNames == {tasks[t].name : t \in CallerTasks}

\* C23: loading is on demand.  Module accessors and constructors are invoked
\* only for the requested names and the names in their transitive
\* service-reference closure; every other name keeps its empty entries in
\* the Loaded Module Cache, the In-Flight Load Table and the Singleton
\* Instance Cache.
C23_LoadsOnlyTheClosure ==
    \A n \in Names \ ClosureOf(RequestedNames) :
        /\ accessorCalls[n] = 0
        /\ loadedServiceModules[n] = Undefined
        /\ serviceModulePromises[n] = 0
        /\ loadedServices[n] = 0
        /\ InstancesOf(n) = {}
        /\ \A p \in 1..Len(promises) : promises[p].name # n
        /\ \A t \in TaskIds : tasks[t].name # n

\* loadService("myService") has returned: myService and its dependency A
\* are loaded and built, myOtherService and B are untouched.
C23_Witness ==
    /\ RequestedNames = {"myService"}
    /\ loadedServices["myService"] # 0 /\ loadedServices["A"] # 0
    /\ accessorCalls["A"] = 1
    /\ accessorCalls["myOtherService"] = 0 /\ accessorCalls["B"] = 0

\* C24: the entry of N in the In-Flight Load Table is removed only by a
\* build of N that has run the constructor of N and completed every
\* post-build action of N; the loading of the module of N alone never
\* removes it.
C24_LoadEntryClearedAfterBuild ==
    [][\A n \in Names :
         (serviceModulePromises[n] # 0 /\ serviceModulePromises'[n] = 0) =>
            \E t \in TaskIds :
                /\ tasks[t].name = n
                /\ tasks[t].pc = "afterPostBuild" /\ tasks'[t].pc = "cache"
                /\ tasks[t].built
                /\ tasks[t].invoked = DeclaredActions(t)
                /\ tasks[t].completed = Len(DeclaredActions(t))
                /\ loadedServiceModules[n] # Undefined]_vars

\* The build of Y has just removed the entry of Y, after its two post-build
\* actions; its instance is not cached yet.
C24_Witness ==
    \E t \in TaskIds :
        /\ tasks[t].name = "Y" /\ tasks[t].pc = "cache"
        /\ tasks[t].completed = 2
        /\ serviceModulePromises["Y"] = 0
        /\ \E p \in 1..Len(promises) : promises[p].name = "Y"
        /\ loadedServices["Y"] = 0

\* The module loads of the name n that have failed.
FailedLoads(n) == {p \in 1..Len(promises) : promises[p].name = n /\ Rejected(promises[p])}

\* The invocations a step has begun.
NewTasks == {t \in 1..Len(tasks') : t > Len(tasks)}

\* The failed load of n stays in the load table, n stays out of both caches,
\* and an invocation that has taken a rejection fails with it, building nothing.
FailedLoadStays ==
    /\ \A n \in Names : \A p \in FailedLoads(n) :
           HasDescriptor(n) =>
              /\ serviceModulePromises[n] = p
              /\ loadedServiceModules[n] = Undefined
              /\ loadedServices[n] = 0
              /\ InstancesOf(n) = {}
    /\ \A t \in TaskIds :
           tasks[t].rejection # NoError =>
              /\ ~tasks[t].built /\ tasks[t].pc # "done"
              /\ tasks[t].pc = "failed" => tasks[t].err = tasks[t].rejection

\* C25 (as amended): once the module load of a name N that has a descriptor
\* has failed, the failed entry stays in the In-Flight Load Table, N stays out
\* of the Loaded Module Cache and the Singleton Instance Cache, the accessor
\* of N is never invoked again, and every later loadService(N) fails with the
\* error of a failed module load it awaits: that of N, or that of a service N
\* references whose load has failed as well.
C25_FailedLoadIsNeverRetried ==
    /\ []FailedLoadStays
    /\ [][\A n \in Names : \A p \in FailedLoads(n) :
             HasDescriptor(n) =>
                /\ accessorCalls'[n] = accessorCalls[n]
                /\ \A t \in NewTasks :
                      tasks'[t].name = n =>
                         /\ tasks'[t].pc = "awaitModules"
                         /\ \E k \in 1..Len(tasks'[t].waits) :
                               LET q == promises[tasks'[t].waits[k]] IN
                               /\ Rejected(q)
                               /\ tasks'[t].rejection = Error(q.state, q.name, "")]_vars

\* C25 (as stated): every later loadService(N) fails with the very error of
\* the failed module load of N.
C25_FailedLoadIsRepeatedVerbatim ==
    /\ []FailedLoadStays
    /\ [][\A n \in Names : \A p \in FailedLoads(n) :
             HasDescriptor(n) =>
                /\ accessorCalls'[n] = accessorCalls[n]
                /\ \A t \in NewTasks :
                      tasks'[t].name = n =>
                         /\ tasks'[t].pc = "awaitModules"
                         /\ tasks'[t].rejection = Error(promises[p].state, n, "")]_vars

\* The load of V has failed; a first loadService("V") failed with that error,
\* and one begun after it has failed with the error of the load of U.
C25_Witness ==
    \E t, u \in TaskIds :
        /\ BeganAfter(t, u) /\ tasks[t].name = "V"
        /\ FailedLoads("V") # {} /\ accessorCalls["V"] = 1
        /\ tasks[u].pc = "failed" /\ tasks[u].err = Error("InvalidPathError", "V", "")
        /\ tasks[t].pc = "failed" /\ tasks[t].err = Error("InvalidPathError", "U", "")

\* Invocation t awaits, in its Promise.all, a module load that has failed.
AwaitsFailedLoad(t) ==
    \E k \in 1..Len(tasks[t].waits) : Rejected(promises[tasks[t].waits[k]])

\* C26: when the shared module load of N fails, every loadService invocation
\* that awaits it, for N itself or for a dependent whose fan-out includes N,
\* fails, and none of them returns an instance.
C26_SharedFailureFailsEveryAwaiter ==
    /\ [](\A t \in TaskIds :
            AwaitsFailedLoad(t) =>
               /\ tasks[t].pc \in {"awaitModules", "failed"}
               /\ tasks[t].result = 0 /\ ~tasks[t].built
               /\ tasks[t].pc = "failed" =>
                     \E k \in 1..Len(tasks[t].waits) :
                        LET q == promises[tasks[t].waits[k]] IN
                        Rejected(q) /\ tasks[t].err = Error(q.state, q.name, ""))
    /\ (\E t \in TaskIds : AwaitsFailedLoad(t))
          ~> (\A t \in TaskIds : AwaitsFailedLoad(t) => tasks[t].pc = "failed")

\* A call for Q and a call for P, whose fan-out includes Q, awaited the same
\* load of Q; it failed and both calls have failed.
C26_Witness ==
    \E t, u \in TaskIds : \E p \in 1..Len(promises) :
        /\ tasks[t].name = "Q" /\ tasks[u].name = "P"
        /\ tasks[t].parent = 0 /\ tasks[u].parent = 0
        /\ promises[p].name = "Q" /\ Rejected(promises[p])
        /\ p \in SeqToSet(tasks[t].waits) /\ p \in SeqToSet(tasks[u].waits)
        /\ tasks[t].pc = "failed" /\ tasks[u].pc = "failed"

\* The loads invocation t awaits together with a failed one, whose accessor
\* yields a module.
SucceedingSiblings(t) ==
    {tasks[t].waits[k] : k \in {j \in 1..Len(tasks[t].waits) :
        ImportOutcome(State, promises[tasks[t].waits[j]].name) = "module"}}

\* C27: when one of the module loads resolve(X) fans out over fails, the
\* invocation fails, X is neither constructed nor cached by it, and the
\* sibling loads go on: the module of every sibling whose accessor succeeds
\* ends up in the Loaded Module Cache.
C27_FailedFanOutLeavesSiblingsLoading ==
    /\ [](\A t \in TaskIds :
            AwaitsFailedLoad(t) /\ Len(tasks[t].waits) > 1 =>
               /\ ~tasks[t].built /\ tasks[t].result = 0
               /\ loadedServices[tasks[t].name] # t
               /\ tasks[t].pc \in {"awaitModules", "failed"})
    /\ (\E t \in TaskIds : AwaitsFailedLoad(t) /\ Len(tasks[t].waits) > 1)
          ~> (\A t \in TaskIds :
                AwaitsFailedLoad(t) /\ Len(tasks[t].waits) > 1 =>
                   /\ tasks[t].pc = "failed"
                   /\ \A q \in SucceedingSiblings(t) :
                         loadedServiceModules[promises[q].name] # Undefined)

\* resolve(P) fanned out over the loads of Q and P; the load of Q failed and
\* loadService("P") failed with its error, P was not constructed, and the
\* module of P is in the cache.
C27_Witness ==
    \E t \in TaskIds :
        /\ tasks[t].name = "P" /\ Len(tasks[t].waits) = 2
        /\ tasks[t].pc = "failed" /\ tasks[t].err = Error("InvalidPathError", "Q", "")
        /\ InstancesOf("P") = {} /\ loadedServices["P"] = 0
        /\ loadedServiceModules["P"] = "P"

\* The module of every service the name n references, transitively, is loaded.
ReferencedModulesLoaded(n) ==
    \A m \in ClosureOf({n}) : loadedServiceModules[m] # Undefined

\* C28 (as amended): whenever an instance name is in the Singleton Instance
\* Cache, the module of every service it references, transitively, by
\* service-reference injection is in the Loaded Module Cache.
C28_CachedInstancesHaveLoadedModules ==
    \A n \in Names : loadedServices[n] # 0 => ReferencedModulesLoaded(n)

\* C28 (as stated): whenever an instance name is in the Loaded Module Cache,
\* the module of every service it references, transitively, is there too.
C28_LoadedModulesAreClosed ==
    \A n \in Names : loadedServiceModules[n] # Undefined => ReferencedModulesLoaded(n)

\* A loadService("X") found the module of X loaded and went straight to its
\* injections, whose loadService("D") had still to await the module of D; X
\* is cached now, with the module of D loaded.
C28_Witness ==
    \E t, u \in TaskIds :
        /\ tasks[t].name = "X" /\ tasks[t].waits = <<>> /\ tasks[t].built
        /\ tasks[u].name = "D" /\ tasks[u].parent = t /\ tasks[u].waits # <<>>
        /\ loadedServices["X"] # 0
        /\ ReferencedModulesLoaded("X")

\* C29: at the moment the constructor of X is invoked, the module of X and
\* the module of every service X references, transitively, are in the Loaded
\* Module Cache, whatever the interleaving of the loads.
C29_ModulesLoadedAtConstruction ==
    [][\A t \in 1..Len(tasks') :
         (tasks'[t].built /\ (t \in TaskIds => ~tasks[t].built)) =>
            /\ loadedServiceModules[tasks'[t].name] # Undefined
            /\ \A m \in ClosureOf({tasks'[t].name}) :
                  /\ loadedServiceModules[m] # Undefined
                  /\ loadedServiceModules'[m] = loadedServiceModules[m]]_vars

\* Top has been constructed and is not cached yet; the modules of Top, L, Rr
\* and Bot are loaded.
C29_Witness ==
    \E t \in TaskIds :
        /\ tasks[t].name = "Top" /\ tasks[t].built /\ loadedServices["Top"] = 0
        /\ \A m \in {"Top", "L", "Rr", "Bot"} : loadedServiceModules[m] # Undefined

\* The injections of the descriptor of the name n; none without a descriptor.
InjectionsOf(n) ==
    LET d == GetServiceDefinition(serviceDefinitions, n)
    IN IF d = 0 THEN <<>> ELSE serviceDefinitions[d].serviceInjections

\* The depth-first pre-order walk over a list of injections: a service
\* reference whose module is not loaded is listed, followed by the walk of its
\* own descriptor; anything else lists nothing.
RECURSIVE DepthFirstPreOrder(_)
DepthFirstPreOrder(injections) ==
    IF injections = <<>> THEN <<>>
    ELSE LET injection == Head(injections)
             own == IF /\ injection.kind = "serviceInstanceName"
                       /\ loadedServiceModules[injection.name] = Undefined
                    THEN <<injection.name>> \o DepthFirstPreOrder(InjectionsOf(injection.name))
                    ELSE <<>>
         IN own \o DepthFirstPreOrder(Tail(injections))

\* The names of the module loads resolve has handed to Promise.all for the
\* invocation t, after the step.
FanOutNames(t) ==
    [k \in 1..Len(tasks'[t].waits) |-> promises'[tasks'[t].waits[k]].name]

\* C30: the names resolve computes for a descriptor are exactly the
\* depth-first pre-order sequence over its service-reference injections:
\* each injection whose module is not loaded, followed by the same walk of its
\* own descriptor; custom injections and loaded ones contribute nothing; a
\* name reached along two paths appears twice; a name without descriptor is
\* listed with no children. resolve appends the name of the descriptor itself.
C30_UnloadedNamesAreDepthFirstPreOrder ==
    [][\A t \in NewTasks :
         /\ (/\ tasks'[t].def # 0
             /\ loadedServices[tasks'[t].name] = 0
             /\ loadedServiceModules[tasks'[t].name] = Undefined)
               <=> tasks'[t].waits # <<>>
         /\ tasks'[t].waits # <<>> =>
               FanOutNames(t) =
                  DepthFirstPreOrder(serviceDefinitions[tasks'[t].def].serviceInjections)
                     \o <<tasks'[t].name>>]_vars

\* On a fresh container resolve fans out, for Top, over L, Bot, Rr, Bot and
\* Top: Bot twice, the custom injection of Top not at all.
C30_Witness ==
    \E t \in TaskIds :
        /\ tasks[t].name = "Top"
        /\ [k \in 1..Len(tasks[t].waits) |-> promises[tasks[t].waits[k]].name]
              = <<"L", "Bot", "Rr", "Bot", "Top">>

\* SERVICES, the descriptor table and the three caches are empty.
EmptyContainer ==
    /\ serviceDefinitions = <<>>
    /\ DOMAIN SERVICES = {}
    /\ \A n \in Names :
          /\ loadedServiceModules[n] = Undefined
          /\ serviceModulePromises[n] = 0
          /\ loadedServices[n] = 0

\* C22: in the static variant reset() returns the container to its initial
\* state: SERVICES, the descriptor table and the three caches are empty, so
\* that every loadService fails with Definition Not Found until initialize is
\* called again, and a service built before the reset is constructed anew,
\* its accessor invoked again, when loaded after the re-initialisation.
C22_ResetReturnsToInitialState ==
    [][/\ serviceDefinitions' = <<>> => EmptyContainer'
       /\ \A t \in NewTasks :
             /\ serviceDefinitions = <<>> =>
                   /\ tasks'[t].pc = "failed"
                   /\ tasks'[t].err = Error("DefinitionNotFoundError", tasks'[t].name, "")
             /\ (/\ HasDescriptor(tasks'[t].name)
                 /\ \E u \in TaskIds : /\ tasks[u].name = tasks'[t].name
                                        /\ tasks[u].pc = "done" /\ tasks[u].built
                                        /\ loadedServices[tasks[u].name] = 0) =>
                   /\ tasks'[t].pc # "done" /\ tasks'[t].result = 0
                   /\ IF /\ loadedServiceModules[tasks'[t].name] = Undefined
                         /\ serviceModulePromises[tasks'[t].name] = 0
                      THEN /\ tasks'[t].pc = "awaitModules"
                           /\ accessorCalls'[tasks'[t].name] =
                                 accessorCalls[tasks'[t].name] + 1
                      ELSE accessorCalls'[tasks'[t].name] =
                              accessorCalls[tasks'[t].name]]_vars

\* X was built, the container was reset and initialised again, and a later
\* loadService("X") has built another instance, the accessor of X called twice.
C22_Witness ==
    \E t, u \in TaskIds :
        /\ tasks[t].name = "X" /\ tasks[u].name = "X" /\ BeganAfter(u, t)
        /\ tasks[t].pc = "done" /\ tasks[t].built /\ tasks[t].result = t
        /\ tasks[u].pc = "done" /\ tasks[u].built /\ tasks[u].result = u
        /\ accessorCalls["X"] = 2
        /\ loadedServices["X"] = u

\* C12 (as amended): when the module accessor of N throws or rejects, the
\* module load of N fails with Invalid Path naming N; N never enters the
\* Loaded Module Cache, the constructor of N never runs, N is never cached,
\* and every loadService(N) fails with the error of a failed module load of
\* its fan-out: Invalid Path naming N when the load of N is the only one of
\* them that has failed.
C12_FailingAccessorFailsTheLoad ==
    \A n \in Names : PathToService(n) \in {"throws", "rejects"} =>
        /\ \A p \in FailedLoads(n) : promises[p].state = "InvalidPathError"
        /\ \A p \in 1..Len(promises) : promises[p].name = n => promises[p].state # "resolved"
        /\ loadedServiceModules[n] = Undefined
        /\ InstancesOf(n) = {}
        /\ loadedServices[n] = 0
        /\ \A t \in TaskIds : tasks[t].name = n =>
              /\ tasks[t].pc # "done"
              /\ tasks[t].pc = "failed" =>
                    \E k \in 1..Len(tasks[t].waits) :
                       LET q == promises[tasks[t].waits[k]] IN
                       /\ Rejected(q)
                       /\ tasks[t].err = Error(q.state, q.name, "")

\* C32: the Loaded Module Cache and the Singleton Instance Cache only grow:
\* no step removes a key from either, and the constructor stored for a name
\* in the Loaded Module Cache never changes once it is set.
C32_CachesOnlyGrow ==
    [][\A n \in Names :
         /\ loadedServiceModules[n] # Undefined =>
               loadedServiceModules'[n] = loadedServiceModules[n]
         /\ loadedServices[n] # 0 => loadedServices'[n] # 0]_vars

\* D is in both caches and a later loadService("D") has returned the cached
\* instance.
C32_Witness ==
    \E t, u \in TaskIds :
        /\ t # u /\ tasks[u].name = "D" /\ tasks[u].pc = "done"
        /\ tasks[u].result = t /\ loadedServices["D"] = t
        /\ loadedServiceModules["D"] = "D"

\* C33: descriptors are read-only after initialization: no loadService or
\* loadServices call, and no continuation of one, changes a field of a
\* descriptor of the table.
C33_DescriptorsAreReadOnly ==
    [][serviceDefinitions' = serviceDefinitions]_vars

\* The name n is in the Loaded Module Cache or in the In-Flight Load Table.
LoadedOrInFlight(n) ==
    loadedServiceModules[n] # Undefined \/ serviceModulePromises[n] # 0

\* C36: the names that are in the Loaded Module Cache or in the In-Flight
\* Load Table are closed under the dependency relation: each name such a name
\* references by service-reference injection is in one of the two as well.
C36_LoadedOrInFlightIsClosed ==
    \A n \in Names :
        LoadedOrInFlight(n) => \A m \in ReferencedNames(n) : LoadedOrInFlight(m)

\* Bot has been built, its module loaded and its entry removed; L, which
\* references Bot, is in flight with its module not loaded yet.
C36_Witness ==
    /\ loadedServiceModules["Bot"] # Undefined /\ serviceModulePromises["Bot"] = 0
    /\ loadedServiceModules["L"] = Undefined /\ serviceModulePromises["L"] # 0

\* No load call is in progress and every load call so far has succeeded.
AllCallsSucceeded ==
    /\ tasks # <<>>
    /\ \A t \in TaskIds : tasks[t].pc = "done"
    /\ \A b \in 1..Len(batches) : batches[b].state = "returned"

\* C37: whenever no load call is in progress and every load call so far has
\* succeeded, the In-Flight Load Table is empty and every name in the Loaded
\* Module Cache is in the Singleton Instance Cache.
C37_QuiescentSuccessLeavesNothingInFlight ==
    AllCallsSucceeded =>
        \A n \in Names :
            /\ serviceModulePromises[n] = 0
            /\ loadedServiceModules[n] # Undefined =>
                  /\ loadedServices[n] # 0
                  /\ loadedServices[n] \in InstancesOf(n)

\* loadServices(["X", "Y"]) has returned: X, Y and the D both reference are
\* loaded and cached.
C37_Witness ==
    /\ AllCallsSucceeded
    /\ \E b \in 1..Len(batches) : batches[b].names = <<"X", "Y">>
    /\ \A n \in {"X", "Y", "D"} : loadedServiceModules[n] # Undefined /\ loadedServices[n] # 0

FailedPostBuild(n) ==
    {t \in TaskIds : /\ tasks[t].name = n /\ tasks[t].pc = "failed" /\ tasks[t].built
                      /\ tasks[t].err.kind = "InvalidPostBuildActionError"}

\* C39: after loadService(N) has failed with Invalid Post-Build Action, the
\* module of N stays in the Loaded Module Cache, the entry of N stays in the
\* In-Flight Load Table and N is not cached; a later loadService(N) does not
\* invoke the accessor again, runs the constructor of N again and restarts
\* the post-build actions from the first: one construction per attempt.
C39_FailedPostBuildIsRebuiltFromScratch ==
    \A n \in Names : \A t \in FailedPostBuild(n) :
        /\ loadedServiceModules[n] # Undefined
        /\ serviceModulePromises[n] # 0
        /\ loadedServices[n] = 0
        /\ accessorCalls[n] = 1
        /\ \A u \in TaskIds : BeganAfter(u, t) =>
              /\ tasks[u].waits = <<>>
              /\ tasks[u].pc # "done"
              /\ tasks[u].built => /\ u \in InstancesOf(n)
                                   /\ tasks[u].cls = tasks[t].cls
              /\ tasks[u].pc = "failed" =>
                    /\ tasks[u].built
                    /\ tasks[u].invoked = tasks[t].invoked
                    /\ tasks[u].err = tasks[t].err
        /\ \A k \in 1..Len(tasks[t].invoked) : tasks[t].invoked[k] = DeclaredActions(t)[k]

\* Two attempts to load e1, the second begun after the first had failed: each
\* ran the constructor and the first post-build method and failed on the
\* missing second one; the accessor was invoked once.
C39_Witness ==
    \E t, u \in FailedPostBuild("e1") :
        /\ BeganAfter(u, t)
        /\ tasks[t].invoked = <<"postBuildMethod">> /\ tasks[u].invoked = <<"postBuildMethod">>
        /\ tasks[u].waits = <<>> /\ tasks[t].waits # <<>>
        /\ accessorCalls["e1"] = 1
        /\ InstancesOf("e1") = {t, u}

\* The five failures of the error taxonomy.
FiveFailures ==
    {"DefinitionNotFoundError", "InvalidInjectionError", "InvalidPostBuildActionError",
     "InvalidPathError", "PathNotFoundError"}

\* Every loadService begun has returned or thrown, every loadServices begun
\* has handed its outcome to its caller.
AllCallsCompleted ==
    /\ \A t \in TaskIds : Finished(tasks[t])
    /\ \A b \in 1..Len(batches) : batches[b].state \in {"returned", "thrown"}

\* C35: with an acyclic reference graph, accessors and post-build actions
\* that settle, and fair scheduling of the pending continuations, every
\* loadService and loadServices call eventually completes, with an instance
\* or with one of the five failures.
C35_EveryCallCompletes ==
    /\ [](\A t \in TaskIds :
            /\ tasks[t].pc = "failed" => tasks[t].err.kind \in FiveFailures
            /\ tasks[t].pc = "done" => tasks[t].result # 0)
    /\ <>[]AllCallsCompleted

\* The descriptor of n and of every service it references, transitively, can
\* be built: it exists, its accessor yields a module, its injections have one
\* of the two shapes and its class has every declared post-build method.
Loadable(n) ==
    \A m \in ClosureOf({n}) :
        LET d == GetServiceDefinition(serviceDefinitions, m) IN
        /\ d # 0
        /\ serviceDefinitions[d].pathToService = "module"
        /\ \A k \in 1..Len(serviceDefinitions[d].serviceInjections) :
              serviceDefinitions[d].serviceInjections[k].kind # "invalid"
        /\ \A k \in 1..Len(serviceDefinitions[d].postBuildAsyncActions) :
              serviceDefinitions[d].postBuildAsyncActions[k]
                 \in Methods(serviceDefinitions[d].serviceClassName)

------------------------------------------------------------------------------
(* Cycles of service-reference injections. *)

\* The names on a cycle of service references: a name its own references lead
\* back to (a self-reference included).
CycleMembers == {n \in Names : n \in ClosureOf(ReferencedNames(n))}

\* The names from which the references lead to a cycle, the members included.
ReachesCycle(n) == ClosureOf({n}) \cap CycleMembers # {}

\* C31: when the service references of the table form a cycle, no loadService
\* for a name that reaches the cycle completes with an instance: the walk
\* over the dependency names does not return (the call ends with the engine's
\* RangeError and awaits no load), no accessor of a cycle member is invoked,
\* no module of a cycle member is loaded or in flight, and no cycle member
\* is in the Singleton Instance Cache.
C31_CycleIsNeverLoaded ==
    /\ \A t \in TaskIds :
          ReachesCycle(tasks[t].name) =>
             /\ tasks[t].pc # "done" /\ tasks[t].result = 0 /\ ~tasks[t].built
             /\ tasks[t].waits = <<>>
             /\ tasks[t].def # 0 =>
                   /\ tasks[t].pc = "failed"
                   /\ tasks[t].err = Error("RangeError", tasks[t].name, "")
    /\ \A n \in Names :
          ReachesCycle(n) =>
             /\ loadedServiceModules[n] = Undefined
             /\ serviceModulePromises[n] = 0
             /\ accessorCalls[n] = 0
             /\ loadedServices[n] = 0
             /\ InstancesOf(n) = {}

\* loadService("Z"), which reaches the cycle of Ca and Cb, and
\* loadService("Self") have both ended in the RangeError, and nothing of the
\* table was loaded.
C31_Witness ==
    /\ CycleMembers = {"Ca", "Cb", "Self"}
    /\ \E t, u \in CallerTasks :
          /\ tasks[t].name = "Z" /\ tasks[t].pc = "failed"
          /\ tasks[t].err = Error("RangeError", "Z", "")
          /\ tasks[u].name = "Self" /\ tasks[u].pc = "failed"
          /\ tasks[u].err = Error("RangeError", "Self", "")
    /\ promises = <<>>
    /\ \A n \in Names : loadedServiceModules[n] = Undefined

====
